---- MODULE Spec2Model ----
(***************************************************************************)
(* Model of the doubly-linked list of src/list.cpp (template class List).  *)
(* One or two List objects share one heap of element nodes.  Every member  *)
(* function is an operator on a heap record, translated statement by       *)
(* statement from its body; every action applies one member function.      *)
(***************************************************************************)
EXTENDS Integers, Sequences, FiniteSets, TLC

\* ---------------------------------------------------------------- bounds
MaxNodes == 3          \* element nodes that can be allocated at one time
MaxKey   == 1          \* keys of the element type are 0..MaxKey
MaxCalls == 4          \* calls recorded by the push/pop history

\* ------------------------------------------------------ the element type
\* T is instantiated with a key and a secondary tag; operator< compares the
\* key only, T{} is the value-initialised element.
Keys         == 0..MaxKey
Tags         == {0, 1}
DefaultValue == <<0, 0>>
Less(a, b)   == a[1] < b[1]

\* ------------------------------------------------------------ the heap
Lists    == {1, 2}
Null     == 0
NodeIds  == 1..MaxNodes
Base(l)  == 0 - l                      \* &base_node_ of list l
Bases    == {Base(l) : l \in Lists}
Ptrs     == NodeIds \cup Bases
NoValue  == <<>>

VARIABLES
  next, prev,   \* the link fields of every node and sentinel
  value,        \* the value field of every element node
  live,         \* the element nodes allocated and not deleted
  size_,        \* the size_ member of every list
  tags,         \* the tags of the element type the lists are instantiated with
  track,        \* which history is kept: "op" the last call, "log" the push/pop log
  op,           \* the last call: name, receiver, arguments, result, exception
  hist          \* the log of push and pop calls on every list

vars == <<next, prev, value, live, size_, tags, track, op, hist>>

\* The values of the element type.
Values == Keys \X tags

\* The heap as one record; the member functions below map heaps to heaps.
H == [next |-> next, prev |-> prev, value |-> value, live |-> live, size |-> size_]

SetNext(h, p, q) == [h EXCEPT !.next[p] = q]
SetPrev(h, p, q) == [h EXCEPT !.prev[p] = q]
SetSize(h, l, n) == [h EXCEPT !.size[l] = n]

Min(S) == CHOOSE x \in S : \A y \in S : x <= y

\* new Node(value): an address that is not the address of any live node.
new_Node(h, v) ==
  LET p == Min(NodeIds \ h.live)
  IN  [h |-> [h EXCEPT !.live = @ \cup {p}, !.value[p] = v,
                       !.next[p] = Null, !.prev[p] = Null],
       p |-> p]

\* delete p: the node's storage is gone; its fields are no longer readable.
delete_Node(h, p) ==
  [h EXCEPT !.live = @ \ {p}, !.value[p] = NoValue,
            !.next[p] = Null, !.prev[p] = Null]

\* List() for the lists ls: each sentinel is linked to itself, size_ is 0.
\* The sentinel of a list that is not constructed holds no pointer.
EmptyHeap(ls) ==
  [next  |-> [p \in Ptrs |-> IF p \in {Base(l) : l \in ls} THEN p ELSE Null],
   prev  |-> [p \in Ptrs |-> IF p \in {Base(l) : l \in ls} THEN p ELSE Null],
   value |-> [p \in NodeIds |-> NoValue],
   live  |-> {},
   size  |-> [l \in Lists |-> 0]]

\* ------------------------------------------------------------ iteration
begin(h, l) == h.next[Base(l)]
end(h, l)   == Base(l)
empty(h, l) == h.size[l] = 0
size(h, l)  == h.size[l]

\* The pointers met by ++ from p until q, p included, q excluded.
RECURSIVE Chain(_, _, _, _)
Chain(h, p, q, fuel) ==
  IF p = q \/ p = Null \/ fuel = 0 THEN <<>>
  ELSE <<p>> \o Chain(h, h.next[p], q, fuel - 1)

Fuel == MaxNodes + 3

\* for (it = begin(); it != end(); ++it): the nodes of list l in order.
Nodes(h, l) == Chain(h, begin(h, l), end(h, l), Fuel)
Range(s)    == {s[i] : i \in 1..Len(s)}
\* The element sequence of list l, for a chain of element nodes.
Elems(h, l) == [i \in 1..Len(Nodes(h, l)) |-> h.value[Nodes(h, l)[i]]]
\* std::distance(first, last)
distance(h, first, last) == Len(Chain(h, first, last, Fuel))

\* ------------------------------------------------------------ modifiers
push_back(h, l, v) ==
  LET a        == new_Node(h, v)
      new_node == a.p
      b        == Base(l)
      h0       == a.h
  IN  IF h0.next[b] = b
      THEN LET h1 == SetNext(h0, b, new_node)
               h2 == SetPrev(h1, b, new_node)
               h3 == SetNext(h2, new_node, b)
               h4 == SetPrev(h3, new_node, b)
           IN  SetSize(h4, l, h4.size[l] + 1)
      ELSE LET h1 == SetNext(h0, h0.prev[b], new_node)
               h2 == SetPrev(h1, new_node, h1.prev[b])
               h3 == SetNext(h2, new_node, b)
               h4 == SetPrev(h3, b, new_node)
           IN  SetSize(h4, l, h4.size[l] + 1)

\* Variant of push_front that links the new node at the tail.
push_front_at_tail(h, l, v) == push_back(h, l, v)

push_front(h, l, v) ==
  LET a        == new_Node(h, v)
      new_node == a.p
      b        == Base(l)
      h0       == a.h
  IN  IF h0.next[b] = b
      THEN LET h1 == SetNext(h0, b, new_node)
               h2 == SetPrev(h1, b, new_node)
               h3 == SetNext(h2, new_node, b)
               h4 == SetPrev(h3, new_node, b)
           IN  SetSize(h4, l, h4.size[l] + 1)
      ELSE LET h1 == SetPrev(h0, h0.next[b], new_node)
               h2 == SetNext(h1, new_node, h1.next[b])
               h3 == SetPrev(h2, new_node, b)
               h4 == SetNext(h3, b, new_node)
           IN  SetSize(h4, l, h4.size[l] + 1)

\* Variant of pop_back that takes the node after the sentinel, not before it.
pop_back_takes_front(h, l) ==
  LET b == Base(l)
  IN  IF h.prev[b] # b
      THEN LET front_node == h.next[b]
               h1 == SetNext(h, b, h.next[front_node])
               h2 == SetPrev(h1, h1.next[front_node], b)
               h3 == delete_Node(h2, front_node)
           IN  SetSize(h3, l, h3.size[l] - 1)
      ELSE h

pop_back(h, l) ==
  LET b == Base(l)
  IN  IF h.prev[b] # b
      THEN LET front_node == h.prev[b]
               h1 == SetPrev(h, b, h.prev[front_node])
               h2 == SetNext(h1, h1.prev[front_node], b)
               h3 == delete_Node(h2, front_node)
           IN  SetSize(h3, l, h3.size[l] - 1)
      ELSE h

\* Variant of pop_front that decrements size_ after the if, not inside it.
pop_front_counts_always(h, l) ==
  LET b == Base(l)
  IN  IF h.next[b] # b
      THEN LET front_node == h.next[b]
               h1 == SetNext(h, b, h.next[front_node])
               h2 == SetPrev(h1, h1.next[front_node], b)
               h3 == delete_Node(h2, front_node)
           IN  SetSize(h3, l, h3.size[l] - 1)
      ELSE SetSize(h, l, h.size[l] - 1)

pop_front(h, l) ==
  LET b == Base(l)
  IN  IF h.next[b] # b
      THEN LET front_node == h.next[b]
               h1 == SetNext(h, b, h.next[front_node])
               h2 == SetPrev(h1, h1.next[front_node], b)
               h3 == delete_Node(h2, front_node)
           IN  SetSize(h3, l, h3.size[l] - 1)
      ELSE h

\* Variant of insert that returns its argument pos instead of the new node.
insert_returns_pos(h, l, pos, v) ==
  LET a            == new_Node(h, v)
      new_node     == a.p
      current_node == pos
      h1 == SetNext(a.h, new_node, current_node)
      h2 == SetPrev(h1, new_node, h1.prev[current_node])
      h3 == SetNext(h2, h2.prev[current_node], new_node)
      h4 == SetPrev(h3, current_node, new_node)
  IN  [h |-> SetSize(h4, l, h4.size[l] + 1), ret |-> current_node]

\* insert(pos, value): the result is the heap and the returned iterator.
insert(h, l, pos, v) ==
  LET a            == new_Node(h, v)
      new_node     == a.p
      current_node == pos
      h1 == SetNext(a.h, new_node, current_node)
      h2 == SetPrev(h1, new_node, h1.prev[current_node])
      h3 == SetNext(h2, h2.prev[current_node], new_node)
      h4 == SetPrev(h3, current_node, new_node)
  IN  [h |-> SetSize(h4, l, h4.size[l] + 1), ret |-> new_node]

\* insert(pos, count, value): every copy goes in before the one inserted last.
RECURSIVE insert_n_loop(_, _, _, _, _, _)
insert_n_loop(h, l, iter, i, count, v) ==
  IF i < count
  THEN LET r == insert(h, l, iter, v)
       IN  insert_n_loop(r.h, l, r.ret, i + 1, count, v)
  ELSE [h |-> h, ret |-> iter]

insert_n(h, l, pos, count, v) == insert_n_loop(h, l, pos, 0, count, v)

\* insert(pos, first, last): the range [first, last) is the sequence range and
\* it is a position in it; std::prev(last) is its last position and
\* std::prev(first) the position 0 before its first, which the loop compares
\* with and never dereferences.
RECURSIVE insert_range_loop(_, _, _, _, _)
insert_range_loop(h, l, ret_iter, range, it) ==
  IF it # 0
  THEN LET r == insert(h, l, ret_iter, range[it])
       IN  insert_range_loop(r.h, l, r.ret, range, it - 1)
  ELSE [h |-> h, ret |-> ret_iter]

\* Variant of insert(pos, first, last) that walks the range from first to last.
RECURSIVE insert_range_loop_forward(_, _, _, _, _)
insert_range_loop_forward(h, l, ret_iter, range, it) ==
  IF it # Len(range) + 1
  THEN LET r == insert(h, l, ret_iter, range[it])
       IN  insert_range_loop_forward(r.h, l, r.ret, range, it + 1)
  ELSE [h |-> h, ret |-> ret_iter]

insert_range_forward(h, l, pos, range) == insert_range_loop_forward(h, l, pos, range, 1)

insert_range(h, l, pos, range) == insert_range_loop(h, l, pos, range, Len(range))

\* erase(pos): the heap, the returned iterator and the exception thrown.
erase(h, l, pos) ==
  IF pos = Base(l)
  THEN [h |-> h, ret |-> Null, err |-> "logic_error"]
  ELSE IF empty(h, l)
  THEN [h |-> h, ret |-> Null, err |-> "out_of_range"]
  ELSE LET current_node == pos
           h1 == SetNext(h, h.prev[current_node], h.next[current_node])
           h2 == SetPrev(h1, h1.next[current_node], h1.prev[current_node])
           next_node == h2.next[current_node]
           h3 == delete_Node(h2, current_node)
       IN  [h |-> SetSize(h3, l, h3.size[l] - 1), ret |-> next_node, err |-> "none"]

\* erase(first, last)
RECURSIVE erase_loop(_, _, _, _, _)
erase_loop(h, l, first_node, last_node, fuel) ==
  IF first_node = last_node \/ fuel = 0 THEN h
  ELSE LET next_node == h.next[first_node]
           h1 == delete_Node(h, first_node)
       IN  erase_loop(SetSize(h1, l, h1.size[l] - 1), l, next_node, last_node, fuel - 1)

\* Variant of erase(first, last) whose loop does not count the nodes it deletes.
erase_range_keeps_size(h, l, first, last) ==
  IF first = Base(l) \/ last = Base(l)
  THEN [h |-> h, ret |-> Null, err |-> "logic_error"]
  ELSE IF first = last
  THEN [h |-> h, ret |-> last, err |-> "none"]
  ELSE LET h1 == SetNext(h, h.prev[first], last)
           h2 == SetPrev(h1, last, h1.prev[first])
       IN  [h |-> SetSize(erase_loop(h2, l, first, last, Fuel), l, h.size[l]),
            ret |-> last, err |-> "none"]

\* Variant of erase(first, last) that checks first only against the sentinel.
erase_range_checks_first(h, l, first, last) ==
  IF first = Base(l)
  THEN [h |-> h, ret |-> Null, err |-> "logic_error"]
  ELSE IF first = last
  THEN [h |-> h, ret |-> last, err |-> "none"]
  ELSE LET h1 == SetNext(h, h.prev[first], last)
           h2 == SetPrev(h1, last, h1.prev[first])
       IN  [h |-> erase_loop(h2, l, first, last, Fuel),
            ret |-> last, err |-> "none"]

\* Variant of erase(first, last) that deletes the node at last as well.
erase_range_inclusive(h, l, first, last) ==
  IF first = Base(l) \/ last = Base(l)
  THEN [h |-> h, ret |-> Null, err |-> "logic_error"]
  ELSE IF first = last
  THEN [h |-> h, ret |-> last, err |-> "none"]
  ELSE LET first_node == first
           last_node  == h.next[last]
           h1 == SetNext(h, h.prev[first_node], last_node)
           h2 == SetPrev(h1, last_node, h1.prev[first_node])
       IN  [h |-> erase_loop(h2, l, first_node, last_node, Fuel),
            ret |-> last_node, err |-> "none"]

erase_range(h, l, first, last) ==
  IF first = Base(l) \/ last = Base(l)
  THEN [h |-> h, ret |-> Null, err |-> "logic_error"]
  ELSE IF first = last
  THEN [h |-> h, ret |-> last, err |-> "none"]
  ELSE LET first_node == first
           last_node  == last
           h1 == SetNext(h, h.prev[first_node], last_node)
           h2 == SetPrev(h1, last_node, h1.prev[first_node])
       IN  [h |-> erase_loop(h2, l, first_node, last_node, Fuel),
            ret |-> last_node, err |-> "none"]

\* clear()
RECURSIVE clear_loop(_, _, _, _)
clear_loop(h, l, current, fuel) ==
  IF current = Base(l) \/ fuel = 0 THEN h
  ELSE LET next_node == h.next[current]
       IN  clear_loop(delete_Node(h, current), l, next_node, fuel - 1)

clear(h, l) ==
  LET b == Base(l)
  IN  IF h.next[b] = b THEN h
      ELSE LET h1 == clear_loop(h, l, h.next[b], Fuel)
               h2 == SetNext(h1, b, b)
               h3 == SetPrev(h2, b, b)
           IN  SetSize(h3, l, 0)

\* resize(count)
RECURSIVE resize_shrink(_, _, _, _)
resize_shrink(h, l, count, fuel) ==
  IF h.size[l] > count /\ fuel > 0
  THEN resize_shrink(pop_back(h, l), l, count, fuel - 1)
  ELSE h

RECURSIVE resize_grow(_, _, _, _, _)
resize_grow(h, l, count, v, fuel) ==
  IF h.size[l] < count /\ fuel > 0
  THEN resize_grow(push_back(h, l, v), l, count, v, fuel - 1)
  ELSE h

resize(h, l, count) ==
  LET h1 == IF count < h.size[l] THEN resize_shrink(h, l, count, Fuel)
            ELSE IF count > h.size[l] THEN resize_grow(h, l, count, DefaultValue, Fuel)
            ELSE h
  IN  SetSize(h1, l, count)

\* resize(count, value)
resize_value(h, l, count, v) ==
  LET h1 == IF count < h.size[l] THEN resize(h, l, count)
            ELSE IF count > h.size[l] THEN resize_grow(h, l, count, v, Fuel)
            ELSE h
  IN  SetSize(h1, l, count)

\* assign(count, value)
RECURSIVE assign_loop(_, _, _, _, _)
assign_loop(h, current, i, count, v) ==
  IF i < count
  THEN LET a  == new_Node(h, v)
           h1 == SetNext(a.h, current, a.p)
           h2 == SetPrev(h1, h1.next[current], current)
       IN  assign_loop(h2, h2.next[current], i + 1, count, v)
  ELSE [h |-> h, current |-> current]

assign(h, l, count, v) ==
  LET b  == Base(l)
      h0 == clear(h, l)
  IN  IF count # 0
      THEN LET a  == new_Node(h0, v)
               h1 == SetNext(a.h, b, a.p)
               h2 == SetPrev(h1, a.p, b)
               r  == assign_loop(h2, a.p, 1, count, v)
               h3 == SetNext(r.h, r.current, b)
               h4 == SetPrev(h3, b, r.current)
           IN  SetSize(h4, l, count)
      ELSE h0

\* assign(first, last) over an external range, given as the sequence it yields
RECURSIVE push_back_all(_, _, _)
push_back_all(h, l, range) ==
  IF range = <<>> THEN h
  ELSE push_back_all(push_back(h, l, Head(range)), l, Tail(range))

assign_range(h, l, range) == push_back_all(clear(h, l), l, range)

\* ------------------------------------------------------------ algorithms
\* unique(): operator== of T is member-wise equality
Equal(a, b) == a = b

RECURSIVE unique_loop(_, _, _, _, _)
unique_loop(h, l, it, next_it, fuel) ==
  IF next_it = end(h, l) \/ fuel = 0 THEN h
  ELSE IF Equal(h.value[it], h.value[next_it])
       THEN LET e == erase(h, l, next_it)
            IN  unique_loop(e.h, l, it, e.ret, fuel - 1)
       ELSE unique_loop(h, l, h.next[it], h.next[next_it], fuel - 1)

\* Variant of unique() that steps both iterators on after an erase as well.
RECURSIVE unique_loop_steps(_, _, _, _, _)
unique_loop_steps(h, l, it, next_it, fuel) ==
  IF next_it = end(h, l) \/ fuel = 0 THEN h
  ELSE IF Equal(h.value[it], h.value[next_it])
       THEN LET e == erase(h, l, next_it)
            IN  IF e.ret = end(e.h, l) THEN e.h
                ELSE unique_loop_steps(e.h, l, e.ret, e.h.next[e.ret], fuel - 1)
       ELSE unique_loop_steps(h, l, h.next[it], h.next[next_it], fuel - 1)

unique_steps_after_erase(h, l) ==
  IF h.size[l] > 1
  THEN unique_loop_steps(h, l, begin(h, l), h.next[begin(h, l)], Fuel)
  ELSE h

unique(h, l) ==
  IF h.size[l] > 1
  THEN unique_loop(h, l, begin(h, l), h.next[begin(h, l)], Fuel)
  ELSE h

\* remove(value)
RECURSIVE remove_loop(_, _, _, _, _)
remove_loop(h, l, it, v, fuel) ==
  IF it = end(h, l) \/ fuel = 0 THEN h
  ELSE IF Equal(h.value[it], v)
       THEN LET e == erase(h, l, it)
            IN  remove_loop(e.h, l, e.ret, v, fuel - 1)
       ELSE remove_loop(h, l, h.next[it], v, fuel - 1)

remove(h, l, v) == remove_loop(h, l, begin(h, l), v, Fuel)

\* merge(other): the heap and the exception that left the loop, if any
RECURSIVE merge_loop(_, _, _, _, _, _)
merge_loop(h, l, o, it1, it2, fuel) ==
  IF it2 = end(h, o) THEN [h |-> h, err |-> "none"]
  ELSE IF fuel = 0 THEN [h |-> h, err |-> "running"]
  ELSE IF it1 = end(h, l) \/ Less(h.value[it2], h.value[it1])
       THEN LET i == insert(h, l, it1, h.value[it2])
                e == erase(i.h, o, it2)
            IN  IF e.err # "none" THEN [h |-> e.h, err |-> e.err]
                ELSE merge_loop(e.h, l, o, it1, e.ret, fuel - 1)
       ELSE merge_loop(h, l, o, h.next[it1], it2, fuel - 1)

MergeFuel == 2 * MaxNodes + 2

\* Variant of merge that also takes from other an element equal to the one at it1.
RECURSIVE merge_loop_unstable(_, _, _, _, _, _)
merge_loop_unstable(h, l, o, it1, it2, fuel) ==
  IF it2 = end(h, o) THEN [h |-> h, err |-> "none"]
  ELSE IF fuel = 0 THEN [h |-> h, err |-> "running"]
  ELSE IF it1 = end(h, l) \/ ~Less(h.value[it1], h.value[it2])
       THEN LET i == insert(h, l, it1, h.value[it2])
                e == erase(i.h, o, it2)
            IN  IF e.err # "none" THEN [h |-> e.h, err |-> e.err]
                ELSE merge_loop_unstable(e.h, l, o, it1, e.ret, fuel - 1)
       ELSE merge_loop_unstable(h, l, o, h.next[it1], it2, fuel - 1)

merge_unstable(h, l, o) ==
  merge_loop_unstable(h, l, o, begin(h, l), begin(h, o), MergeFuel)

merge(h, l, o) == merge_loop(h, l, o, begin(h, l), begin(h, o), MergeFuel)

\* merge(other), one turn of its while loop from the iterators it1 and it2:
\* the heap and the iterators after it, whether the loop has ended, and the
\* exception that left it, if any.
merge_step(h, l, o, it1, it2) ==
  IF it2 = end(h, o)
  THEN [h |-> h, it1 |-> it1, it2 |-> it2, done |-> TRUE, err |-> "none"]
  ELSE IF it1 = end(h, l) \/ Less(h.value[it2], h.value[it1])
       THEN LET i == insert(h, l, it1, h.value[it2])
                e == erase(i.h, o, it2)
            IN  [h |-> e.h, it1 |-> it1, it2 |-> e.ret,
                 done |-> e.err # "none", err |-> e.err]
       ELSE [h |-> h, it1 |-> h.next[it1], it2 |-> it2, done |-> FALSE, err |-> "none"]

\* std::iter_swap(a, b): the two nodes exchange their values
iter_swap(h, a, b) == [h EXCEPT !.value[a] = h.value[b], !.value[b] = h.value[a]]

\* sort(): one pass of the for loop, then the do-while around it
RECURSIVE sort_pass(_, _, _, _, _)
sort_pass(h, l, it, swapped, fuel) ==
  IF h.next[it] = end(h, l) \/ fuel = 0 THEN [h |-> h, swapped |-> swapped]
  ELSE LET next_it == h.next[it]
       IN  IF Less(h.value[next_it], h.value[it])
           THEN sort_pass(iter_swap(h, it, next_it), l, h.next[it], TRUE, fuel - 1)
           ELSE sort_pass(h, l, h.next[it], swapped, fuel - 1)

RECURSIVE sort_loop(_, _, _)
sort_loop(h, l, fuel) ==
  LET r == sort_pass(h, l, begin(h, l), FALSE, Fuel)
  IN  IF r.swapped /\ fuel > 0 THEN sort_loop(r.h, l, fuel - 1) ELSE r.h

\* Variant of sort() that makes one pass of the for loop and no second one.
sort_one_pass(h, l) ==
  IF h.size[l] > 1 THEN sort_pass(h, l, begin(h, l), FALSE, Fuel).h ELSE h

\* Variant of sort() that compares whole elements, the tag after the key.
RECURSIVE sort_pass_whole(_, _, _, _, _)
sort_pass_whole(h, l, it, swapped, fuel) ==
  IF h.next[it] = end(h, l) \/ fuel = 0 THEN [h |-> h, swapped |-> swapped]
  ELSE LET next_it == h.next[it]
           a == h.value[next_it]
           b == h.value[it]
       IN  IF Less(a, b) \/ (a[1] = b[1] /\ a[2] < b[2])
           THEN sort_pass_whole(iter_swap(h, it, next_it), l, h.next[it], TRUE, fuel - 1)
           ELSE sort_pass_whole(h, l, h.next[it], swapped, fuel - 1)

RECURSIVE sort_loop_whole(_, _, _)
sort_loop_whole(h, l, fuel) ==
  LET r == sort_pass_whole(h, l, begin(h, l), FALSE, Fuel)
  IN  IF r.swapped /\ fuel > 0 THEN sort_loop_whole(r.h, l, fuel - 1) ELSE r.h

sort_whole_element(h, l) == IF h.size[l] > 1 THEN sort_loop_whole(h, l, Fuel) ELSE h

sort(h, l) == IF h.size[l] > 1 THEN sort_loop(h, l, Fuel) ELSE h

\* reverse()
RECURSIVE reverse_loop(_, _, _, _)
reverse_loop(h, left, right, fuel) ==
  IF left # right /\ left # h.next[right] /\ fuel > 0
  THEN reverse_loop(iter_swap(h, left, right), h.next[left], h.prev[right], fuel - 1)
  ELSE h

\* Variant of reverse() whose loop stops only when left and right are equal.
RECURSIVE reverse_loop_equal(_, _, _, _)
reverse_loop_equal(h, left, right, fuel) ==
  IF left # right /\ fuel > 0
  THEN reverse_loop_equal(iter_swap(h, left, right), h.next[left], h.prev[right], fuel - 1)
  ELSE h

reverse_until_equal(h, l) == reverse_loop_equal(h, begin(h, l), h.prev[end(h, l)], Fuel)

reverse(h, l) == reverse_loop(h, begin(h, l), h.prev[end(h, l)], Fuel)

\* swap(other): std::swap of the two base_node_ members, then of the sizes
swap(h, l, o) ==
  LET tmp == [prev |-> h.prev[Base(l)], next |-> h.next[Base(l)]]
      h1  == SetNext(SetPrev(h, Base(l), h.prev[Base(o)]), Base(l), h.next[Base(o)])
      h2  == SetNext(SetPrev(h1, Base(o), tmp.prev), Base(o), tmp.next)
  IN  [h2 EXCEPT !.size[l] = h2.size[o], !.size[o] = h2.size[l]]

\* Variant of splice(pos, other, first, last) that leaves other.size_ as it was.
splice_range_keeps_other_size(h, l, pos, o, first, last) ==
  IF first = last THEN h
  ELSE LET prev_first == h.prev[first]
           next_last  == last
           h1 == SetNext(h, prev_first, next_last)
           h2 == SetPrev(h1, next_last, prev_first)
           h3 == SetPrev(h2, first, h2.prev[pos])
           h4 == SetNext(h3, h3.prev[last], pos)
           h5 == SetNext(h4, h4.prev[pos], first)
           h6 == SetPrev(h5, pos, h5.prev[last])
       IN  SetSize(h6, l, h6.size[l] + distance(h6, first, last))

\* splice(pos, other, first, last)
splice_range(h, l, pos, o, first, last) ==
  IF first = last THEN h
  ELSE LET prev_first == h.prev[first]
           next_last  == last
           h1 == SetNext(h, prev_first, next_last)
           h2 == SetPrev(h1, next_last, prev_first)
           h3 == SetPrev(h2, first, h2.prev[pos])
           h4 == SetNext(h3, h3.prev[last], pos)
           h5 == SetNext(h4, h4.prev[pos], first)
           h6 == SetPrev(h5, pos, h5.prev[last])
           h7 == SetSize(h6, l, h6.size[l] + distance(h6, first, last))
       IN  SetSize(h7, o, h7.size[o] - distance(h7, first, last))

\* splice(pos, other, it)
splice_one(h, l, pos, o, it) ==
  LET next_it == h.next[it]
  IN  splice_range(h, l, pos, o, it, next_it)

\* splice(pos, other)
splice(h, l, pos, o) ==
  IF l = o \/ empty(h, o) THEN h
  ELSE LET first == begin(h, o)
           last  == end(h, o)
       IN  splice_range(h, l, pos, o, first, last)

\* ------------------------------------------------- validity of a list
\* The chain of list l is closed through its own sentinel and doubly linked.
WellFormed(h, l) ==
  LET b  == Base(l)
      ns == Nodes(h, l)
  IN  /\ Range(ns) \subseteq h.live
      /\ IF ns = <<>> THEN h.next[b] = b ELSE h.next[ns[Len(ns)]] = b
      /\ \A n \in Range(ns) \cup {b} :
            /\ h.next[n] # Null /\ h.prev[n] # Null
            /\ h.prev[h.next[n]] = n
            /\ h.next[h.prev[n]] = n

\* The iterators a caller can hold on list l: its elements and end().
Cursors(h, l) == Range(Nodes(h, l)) \cup {end(h, l)}

\* Position of a cursor in begin() .. end().
Index(h, l, p) ==
  IF p = end(h, l) THEN Len(Nodes(h, l)) + 1
  ELSE CHOOSE i \in 1..Len(Nodes(h, l)) : Nodes(h, l)[i] = p

\* The List objects that are constructed.
Objects == {l \in Lists : next[Base(l)] # Null}

\* Calls are made on valid lists only: a caller has no valid cursor otherwise.
Valid       == \A l \in Objects : WellFormed(H, l)
CanAlloc(k) == Cardinality(live) + k <= MaxNodes

\* ------------------------------------------------------------- the state
Set(h) ==
  /\ next'  = h.next
  /\ prev'  = h.prev
  /\ value' = h.value
  /\ live'  = h.live
  /\ size_' = h.size

NoOp == [name |-> "List", l |-> 0, o |-> 0, pos |-> Null, first |-> Null,
         last |-> Null, v |-> NoValue, n |-> 0, ret |-> Null, err |-> "none",
         before |-> <<>>, undo |-> FALSE]

\* The call is recorded in op when track holds "op".
Call(r) ==
  /\ op' = IF "op" \in track THEN r ELSE NoOp
  /\ UNCHANGED <<tags, track>>

\* A push or pop call is appended to the log of its list when track holds "log".
Log(l, name, v) ==
  /\ "log" \in track => Len(hist[1]) + Len(hist[2]) < MaxCalls
  /\ hist' = IF "log" \in track THEN [hist EXCEPT ![l] = Append(@, <<name, v>>)]
             ELSE hist

InitHeap(ls) ==
  /\ next  = EmptyHeap(ls).next
  /\ prev  = EmptyHeap(ls).prev
  /\ value = EmptyHeap(ls).value
  /\ live  = EmptyHeap(ls).live
  /\ size_ = EmptyHeap(ls).size
  /\ op    = NoOp
  /\ hist  = [l \in Lists |-> <<>>]

\* ------------------------------------------------------------ the calls
PushBack ==
  /\ Valid /\ CanAlloc(1)
  /\ \E l \in Objects, v \in Values :
       /\ Set(push_back(H, l, v))
       /\ Call([NoOp EXCEPT !.name = "push_back", !.l = l, !.v = v])
       /\ Log(l, "push_back", v)

PushFront ==
  /\ Valid /\ CanAlloc(1)
  /\ \E l \in Objects, v \in Values :
       /\ Set(push_front(H, l, v))
       /\ Call([NoOp EXCEPT !.name = "push_front", !.l = l, !.v = v])
       /\ Log(l, "push_front", v)

PopBack ==
  /\ Valid
  /\ \E l \in Objects :
       /\ Set(pop_back(H, l))
       /\ Call([NoOp EXCEPT !.name = "pop_back", !.l = l, !.n = size(H, l)])
       /\ Log(l, "pop_back", NoValue)

PopFront ==
  /\ Valid
  /\ \E l \in Objects :
       /\ Set(pop_front(H, l))
       /\ Call([NoOp EXCEPT !.name = "pop_front", !.l = l, !.n = size(H, l)])
       /\ Log(l, "pop_front", NoValue)

\* it = insert(pos, value); the record keeps the sequence and size before it.
Insert ==
  /\ Valid /\ CanAlloc(1)
  /\ \E l \in Objects, v \in Values :
       \E pos \in Cursors(H, l) :
         LET r == insert(H, l, pos, v)
         IN  /\ Set(r.h)
             /\ Call([NoOp EXCEPT !.name = "insert", !.l = l, !.pos = pos, !.v = v,
                                  !.ret = r.ret, !.n = size(H, l),
                                  !.before = Elems(H, l)])
             /\ UNCHANGED hist

\* erase(pos); undo marks the erase of the iterator that the insert just before
\* it returned, and then carries that insert's record along.
Erase ==
  /\ Valid
  /\ \E l \in Objects :
       \E pos \in Cursors(H, l) :
         LET r    == erase(H, l, pos)
             undo == op.name = "insert" /\ op.l = l /\ op.ret = pos
         IN  /\ Set(r.h)
             /\ Call([NoOp EXCEPT !.name = "erase", !.l = l, !.pos = pos,
                                  !.ret = r.ret, !.err = r.err, !.undo = undo,
                                  !.first  = IF undo THEN op.pos ELSE Null,
                                  !.n      = IF undo THEN op.n ELSE 0,
                                  !.before = IF undo THEN op.before ELSE <<>>])
             /\ UNCHANGED hist

\* erase(first, last) with last reachable from first, or with first == end();
\* the record keeps the number of nodes in [first, last).
EraseRange ==
  /\ Valid
  /\ \E l \in Objects :
       \E first \in Cursors(H, l), last \in Cursors(H, l) :
         /\ Index(H, l, first) <= Index(H, l, last) \/ first = end(H, l)
         /\ LET r == erase_range(H, l, first, last)
            IN  /\ Set(r.h)
                /\ Call([NoOp EXCEPT !.name = "erase_range", !.l = l, !.first = first,
                                     !.last = last, !.ret = r.ret, !.err = r.err,
                                     !.n = IF r.err = "none"
                                           THEN distance(H, first, last) ELSE 0])
         /\ UNCHANGED hist

Clear ==
  /\ Valid
  /\ \E l \in Objects :
       /\ Set(clear(H, l))
       /\ Call([NoOp EXCEPT !.name = "clear", !.l = l])
       /\ UNCHANGED hist

Resize ==
  /\ Valid
  /\ \E l \in Objects, count \in 0..MaxNodes :
       /\ CanAlloc(count - size(H, l))
       /\ Set(resize(H, l, count))
       /\ Call([NoOp EXCEPT !.name = "resize", !.l = l, !.n = count])
       /\ UNCHANGED hist

ResizeValue ==
  /\ Valid
  /\ \E l \in Objects, count \in 0..MaxNodes, v \in Values :
       /\ CanAlloc(count - size(H, l))
       /\ Set(resize_value(H, l, count, v))
       /\ Call([NoOp EXCEPT !.name = "resize_value", !.l = l, !.n = count, !.v = v])
       /\ UNCHANGED hist

Assign ==
  /\ Valid
  /\ \E l \in Objects, count \in 0..MaxNodes, v \in Values :
       /\ CanAlloc(count - Len(Nodes(H, l)))
       /\ Set(assign(H, l, count, v))
       /\ Call([NoOp EXCEPT !.name = "assign", !.l = l, !.n = count, !.v = v])
       /\ UNCHANGED hist

\* The external ranges handed to assign(first, last).
MaxRange == 2
Ranges   == UNION {[1..k -> Values] : k \in 0..MaxRange}

AssignRange ==
  /\ Valid
  /\ \E l \in Objects, range \in Ranges :
       /\ CanAlloc(Len(range) - Len(Nodes(H, l)))
       /\ Set(assign_range(H, l, range))
       /\ Call([NoOp EXCEPT !.name = "assign_range", !.l = l, !.v = range])
       /\ UNCHANGED hist

\* it = insert(pos, count, value)
InsertCount ==
  /\ Valid
  /\ \E l \in Objects, count \in 0..MaxRange, v \in Values :
       \E pos \in Cursors(H, l) :
         LET r == insert_n(H, l, pos, count, v)
         IN  /\ CanAlloc(count)
             /\ Set(r.h)
             /\ Call([NoOp EXCEPT !.name = "insert_n", !.l = l, !.pos = pos,
                                  !.v = [i \in 1..count |-> v], !.ret = r.ret,
                                  !.n = size(H, l), !.before = Elems(H, l)])
             /\ UNCHANGED hist

\* it = insert(pos, first, last) with a range of another container
InsertRange ==
  /\ Valid
  /\ \E l \in Objects, range \in Ranges :
       \E pos \in Cursors(H, l) :
         LET r == insert_range(H, l, pos, range)
         IN  /\ CanAlloc(Len(range))
             /\ Set(r.h)
             /\ Call([NoOp EXCEPT !.name = "insert_range", !.l = l, !.pos = pos,
                                  !.v = range, !.ret = r.ret,
                                  !.n = size(H, l), !.before = Elems(H, l)])
             /\ UNCHANGED hist

Unique ==
  /\ Valid
  /\ \E l \in Objects :
       /\ Set(unique(H, l))
       /\ Call([NoOp EXCEPT !.name = "unique", !.l = l, !.n = size(H, l),
                                !.before = Elems(H, l)])
       /\ UNCHANGED hist

Remove ==
  /\ Valid
  /\ \E l \in Objects, v \in Values :
       /\ Set(remove(H, l, v))
       /\ Call([NoOp EXCEPT !.name = "remove", !.l = l, !.v = v])
       /\ UNCHANGED hist

\* merge(other); every element of other needs one new node while its old one
\* lives.  The record keeps the size of the receiver and the elements of other
\* before the call.
Merge ==
  /\ Valid
  /\ \E l \in Objects, o \in Objects :
       /\ l # o
       /\ CanAlloc(1) \/ Nodes(H, o) = <<>>
       /\ LET r == merge(H, l, o)
          IN  /\ Set(r.h)
              /\ Call([NoOp EXCEPT !.name = "merge", !.l = l, !.o = o, !.err = r.err,
                                   !.n = size(H, l), !.before = Elems(H, o)])
       /\ UNCHANGED hist

\* merge(other) turn by turn, other being any list, the receiver included.
\* While the call runs the record holds it1 in pos and it2 in first; n is the
\* number of elements the two lists hold when the call starts.
Running == op.name = "merge_loop"

MergeBegin ==
  /\ Valid /\ ~Running
  /\ \E l \in Objects, o \in Objects :
       /\ CanAlloc(1) \/ Nodes(H, o) = <<>>
       /\ Set(H)
       /\ Call([NoOp EXCEPT !.name = "merge_loop", !.l = l, !.o = o,
                            !.pos = begin(H, l), !.first = begin(H, o),
                            !.n = Cardinality(Range(Nodes(H, l)) \cup Range(Nodes(H, o)))])
       /\ UNCHANGED hist

MergeStep ==
  /\ Running
  /\ LET r == merge_step(H, op.l, op.o, op.pos, op.first)
     IN  /\ Set(r.h)
         /\ Call([op EXCEPT !.name = IF r.done THEN "merge" ELSE "merge_loop",
                            !.pos = r.it1, !.first = r.it2, !.err = r.err])
  /\ UNCHANGED hist

Sort ==
  /\ Valid
  /\ \E l \in Objects :
       /\ Set(sort(H, l))
       /\ Call([NoOp EXCEPT !.name = "sort", !.l = l, !.n = size(H, l),
                                !.before = Elems(H, l)])
       /\ UNCHANGED hist

Reverse ==
  /\ Valid
  /\ \E l \in Objects :
       /\ Set(reverse(H, l))
       /\ Call([NoOp EXCEPT !.name = "reverse", !.l = l, !.n = size(H, l),
                                !.before = Elems(H, l)])
       /\ UNCHANGED hist

Swap ==
  /\ Valid
  /\ \E l \in Objects, o \in Objects :
       /\ l # o
       /\ Set(swap(H, l, o))
       /\ Call([NoOp EXCEPT !.name = "swap", !.l = l, !.o = o])
       /\ UNCHANGED hist

\* The three splice overloads; the record keeps the range [first, last) that is
\* named and the number of nodes in it before the call.
Splice ==
  /\ Valid
  /\ \E l \in Objects, o \in Objects :
       \E pos \in Cursors(H, l) :
         /\ Set(splice(H, l, pos, o))
         /\ Call([NoOp EXCEPT !.name = "splice", !.l = l, !.o = o, !.pos = pos,
                              !.first = begin(H, o), !.last = end(H, o),
                              !.n = distance(H, begin(H, o), end(H, o))])
         /\ UNCHANGED hist

SpliceOne ==
  /\ Valid
  /\ \E l \in Objects, o \in Objects :
       \E pos \in Cursors(H, l), it \in Range(Nodes(H, o)) :
         /\ l # o
         /\ Set(splice_one(H, l, pos, o, it))
         /\ Call([NoOp EXCEPT !.name = "splice_one", !.l = l, !.o = o, !.pos = pos,
                              !.first = it, !.last = H.next[it], !.n = 1])
         /\ UNCHANGED hist

SpliceRange ==
  /\ Valid
  /\ \E l \in Objects, o \in Objects :
       \E pos \in Cursors(H, l), first \in Cursors(H, o), last \in Cursors(H, o) :
         /\ l # o
         /\ Index(H, o, first) <= Index(H, o, last)
         /\ Set(splice_range(H, l, pos, o, first, last))
         /\ Call([NoOp EXCEPT !.name = "splice_range", !.l = l, !.o = o, !.pos = pos,
                              !.first = first, !.last = last,
                              !.n = distance(H, first, last)])
         /\ UNCHANGED hist

\* -------------------------------------------------------- specifications
\* Two empty List<T>, T without tags, every public call, no history.
Init == InitHeap(Lists) /\ tags = {0} /\ track = {}

Next ==
  \/ PushBack \/ PushFront \/ PopBack \/ PopFront
  \/ Insert \/ InsertCount \/ InsertRange \/ Erase \/ EraseRange \/ Clear
  \/ Resize \/ ResizeValue \/ Assign \/ AssignRange
  \/ Unique \/ Remove \/ Merge \/ Sort \/ Reverse
  \/ Swap \/ Splice \/ SpliceOne \/ SpliceRange

Spec == Init /\ [][Next]_vars

\* The calls that create, destroy or copy nodes.
NextMod ==
  \/ PushBack \/ PushFront \/ PopBack \/ PopFront
  \/ Insert \/ InsertCount \/ InsertRange \/ Erase \/ EraseRange \/ Clear
  \/ Resize \/ ResizeValue \/ Assign \/ AssignRange
  \/ Unique \/ Remove \/ Merge

SpecMod == Init /\ [][NextMod]_vars

\* Push and pop calls only, from one empty list, with the log of the calls.
InitPushPop == InitHeap({1}) /\ tags = {0} /\ track = {"log"}

NextPushPop == PushBack \/ PushFront \/ PopBack \/ PopFront

SpecPushPop == InitPushPop /\ [][NextPushPop]_vars

\* One list, insert and erase calls, each recorded.
InitOne == InitHeap({1}) /\ tags = {0} /\ track = {"op"}

NextErase == Insert \/ Erase \/ EraseRange

SpecErase == InitOne /\ [][NextErase]_vars

\* Two lists built by push_back, then spliced; each call recorded.
InitCalls == InitHeap(Lists) /\ tags = {0} /\ track = {"op"}

NextSplice == PushBack \/ Splice \/ SpliceOne \/ SpliceRange

SpecSplice == InitCalls /\ [][NextSplice]_vars

\* Two lists of tagged elements built by push_back, then merged; each call
\* recorded.
InitTagged == InitHeap(Lists) /\ tags = Tags /\ track = {"op"}

NextMerge == PushBack \/ Merge

SpecMerge == InitTagged /\ [][NextMerge]_vars

\* One list of tagged elements, filled at either end and sorted.
InitOneTagged == InitHeap({1}) /\ tags = Tags /\ track = {"op"}
NextSort == PushBack \/ PushFront \/ Sort
SpecSort == InitOneTagged /\ [][NextSort]_vars

\* One list of tagged elements, filled at either end, with unique() and
\* reverse().
NextAlgo == PushBack \/ PushFront \/ Unique \/ Reverse
SpecAlgo == InitOneTagged /\ [][NextAlgo]_vars

\* One list and the insert overloads that take several elements.
NextInsert == InsertCount \/ InsertRange
SpecInsert == InitOne /\ [][NextInsert]_vars

\* One list and the calls that add or remove one element.
NextCursor == PushBack \/ PushFront \/ PopBack \/ PopFront \/ Insert \/ Erase
SpecCursor == InitOne /\ [][NextCursor]_vars

\* Two lists filled at the back while no call runs, and merge(other) turn by
\* turn; a call that has started goes on taking its turns.
NextMergeLoop == (~Running /\ PushBack) \/ MergeBegin \/ MergeStep
SpecMergeLoop == InitCalls /\ [][NextMergeLoop]_vars /\ WF_vars(MergeStep)

\* Two lists filled at the back and exchanged.
NextSwap == PushBack \/ Swap
SpecSwap == InitCalls /\ [][NextSwap]_vars

\* ------------------------------------------------------------- properties
TypeOK == \A l \in Lists : size_[l] \in Nat

\* C1: before and after every public call each list's chain is one doubly
\* linked cycle through its own sentinel: next from the sentinel comes back to
\* it, and n.next.prev = n and n.prev.next = n for every node n on the way.
LinksClosed == \A l \in Objects : WellFormed(H, l)

\* C2: after any sequence of push, pop, insert, erase, clear, assign, resize,
\* remove, unique and merge calls, size() of each list is the number of element
\* nodes met from sentinel.next until the sentinel.
SizeIsNodeCount == \A l \in Objects : size(H, l) = Len(Nodes(H, l))

SizeIsNodeCountWitness ==
  /\ size(H, 1) >= 2 /\ Len(Nodes(H, 1)) >= 2
  /\ size(H, 2) >= 1 /\ Len(Nodes(H, 2)) >= 1

\* The push and pop calls of a log.
Pushes(log)  == {i \in 1..Len(log) : log[i][1] \in {"push_back", "push_front"}}
Pops(log)    == {i \in 1..Len(log) : log[i][1] \in {"pop_back", "pop_front"}}
Only(log, name) == \A i \in 1..Len(log) : log[i][1] = name
Pushed(log)  == [i \in 1..Len(log) |-> log[i][2]]
Reversed(s)  == [i \in 1..Len(s) |-> s[Len(s) + 1 - i]]
\* The pops of a log that were made on a list holding an element.
RECURSIVE PopsOfNonEmpty(_, _)
PopsOfNonEmpty(log, held) ==
  IF log = <<>> THEN 0
  ELSE IF Head(log)[1] \in {"push_back", "push_front"}
       THEN PopsOfNonEmpty(Tail(log), held + 1)
       ELSE IF held > 0 THEN 1 + PopsOfNonEmpty(Tail(log), held - 1)
            ELSE PopsOfNonEmpty(Tail(log), held)

PushOrder(l) ==
  /\ Only(hist[l], "push_back")  => Elems(H, l) = Pushed(hist[l])
  /\ Only(hist[l], "push_front") => Elems(H, l) = Reversed(Pushed(hist[l]))

\* C3 as stated: after any sequence of push_back, push_front, pop_back and
\* pop_front calls from an empty list, size() is the number of pushes minus
\* the number of pops, and the elements are the pushed values in push order
\* when only push_back was called, in reverse push order when only push_front.
PushPopNetCalls ==
  \A l \in Objects :
    /\ size(H, l) = Cardinality(Pushes(hist[l])) - Cardinality(Pops(hist[l]))
    /\ PushOrder(l)

\* C3 amended: size() is the number of pushes minus the number of pops that
\* were made on a non-empty list (a pop of an empty list removes nothing); the
\* order of the elements is as stated.
PushPopNetEffect ==
  \A l \in Objects :
    /\ size(H, l) = Cardinality(Pushes(hist[l])) - PopsOfNonEmpty(hist[l], 0)
    /\ PushOrder(l)

PushPopNetEffectWitness ==
  \E l \in Objects :
    /\ Cardinality(Pops(hist[l])) > PopsOfNonEmpty(hist[l], 0)
    /\ Cardinality(Pushes(hist[l])) >= 2
    /\ size(H, l) >= 1

\* C4: it = insert(pos, v) followed by erase(it) leaves the element sequence
\* and the size the list had before the insert, and erase returns pos.
InsertEraseRoundTrip ==
  (op.name = "erase" /\ op.undo) =>
     /\ op.err = "none"
     /\ Elems(H, op.l) = op.before
     /\ size(H, op.l) = op.n
     /\ op.ret = op.first

InsertEraseRoundTripWitness ==
  /\ op.name = "erase" /\ op.undo /\ op.err = "none"
  /\ Len(op.before) >= 2
  /\ op.first \in NodeIds
  /\ op.ret = op.first

\* The nodes a splice call names, their place in the receiver, and what the
\* two chains are when these nodes are moved before pos.
SpliceNames == {"splice", "splice_one", "splice_range"}
Moved(h, c) == Chain(h, c.first, c.last, Fuel)
Without(s, S) == LET keep(x) == x \notin S IN SelectSeq(s, keep)
InsertBefore(s, i, m) == SubSeq(s, 1, i - 1) \o m \o SubSeq(s, i, Len(s))

\* C5: for two distinct lists every splice overload that names a non-empty
\* range moves those nodes, in their order, to immediately before pos in the
\* receiver: the receiver then holds its old elements with the moved ones
\* before pos, other holds its old elements without the moved ones.
SpliceRelinks ==
  [][ (op'.name \in SpliceNames /\ op'.l # op'.o /\ Moved(H, op') # <<>>) =>
        /\ Nodes(H', op'.l) =
             InsertBefore(Nodes(H, op'.l), Index(H, op'.l, op'.pos), Moved(H, op'))
        /\ Nodes(H', op'.o) = Without(Nodes(H, op'.o), Range(Moved(H, op')))
        /\ value' = value ]_vars

\* C6: for two distinct lists a splice that moves k nodes adds k to the size
\* of the receiver and takes k from the size of other; a splice of an empty
\* range changes nothing.
SpliceSizes ==
  [][ (op'.name \in SpliceNames /\ op'.l # op'.o) =>
        /\ size(H', op'.l) = size(H, op'.l) + Len(Moved(H, op'))
        /\ size(H', op'.o) = size(H, op'.o) - Len(Moved(H, op'))
        /\ Moved(H, op') = <<>> => H' = H ]_vars

SpliceSizesWitness ==
  /\ op.name = "splice_range" /\ op.l # op.o
  /\ op.n = 2
  /\ size(H, op.l) = 3 /\ size(H, op.o) = 0

\* Ascending order, and the merge of two sequences that keeps an element of
\* the first before every element of the second that is not less than it.
Sorted(s) == \A i \in 1..Len(s) - 1 : ~Less(s[i + 1], s[i])
Count(s, x) == Cardinality({i \in 1..Len(s) : s[i] = x})
Permutation(s, t) ==
  /\ Len(s) = Len(t)
  /\ \A x \in Range(s) \cup Range(t) : Count(s, x) = Count(t, x)
RECURSIVE StableUnion(_, _)
StableUnion(a, b) ==
  IF b = <<>> THEN a
  ELSE IF a = <<>> THEN b
  ELSE IF Less(Head(b), Head(a)) THEN <<Head(b)>> \o StableUnion(a, Tail(b))
  ELSE <<Head(a)>> \o StableUnion(Tail(a), b)

\* C7: for two distinct lists that are each sorted, merge leaves other empty
\* (size 0) and the receiver sorted, a permutation of all elements, with every
\* element of the receiver before the equal elements that came from other and
\* the order inside each list kept.
MergeSortedStable ==
  [][ (op'.name = "merge" /\ op'.l # op'.o
       /\ Sorted(Elems(H, op'.l)) /\ Sorted(Elems(H, op'.o))) =>
        /\ op'.err = "none"
        /\ Nodes(H', op'.o) = <<>> /\ size(H', op'.o) = 0
        /\ Sorted(Elems(H', op'.l))
        /\ Permutation(Elems(H', op'.l), Elems(H, op'.l) \o Elems(H, op'.o))
        /\ Elems(H', op'.l) = StableUnion(Elems(H, op'.l), Elems(H, op'.o))
        /\ size(H', op'.l) = size(H, op'.l) + size(H, op'.o) ]_vars

MergeSortedStableWitness ==
  /\ op.name = "merge" /\ op.err = "none"
  /\ op.n = 1 /\ op.before = << <<0, 0>> >>
  /\ Elems(H, op.l) = << <<0, 1>>, <<0, 0>> >>
  /\ size(H, op.o) = 0

\* C8: merge moves nodes and copies none: the set of live element nodes is
\* the same after the call, and every node that was in other is in the
\* receiver afterwards.
MergeKeepsNodes ==
  [][ (op'.name = "merge" /\ op'.l # op'.o) =>
        /\ live' = live
        /\ Range(Nodes(H, op'.o)) \subseteq Range(Nodes(H', op'.l)) ]_vars

\* C9: erase(pos) with pos the end cursor and erase(first, last) with a bound
\* that is the end cursor throw std::logic_error and leave the elements, the
\* links and the size as they were.
EraseEndThrows ==
  [][ ( \/ op'.name = "erase" /\ op'.pos = end(H, op'.l)
        \/ op'.name = "erase_range" /\ end(H, op'.l) \in {op'.first, op'.last} ) =>
        /\ op'.err = "logic_error"
        /\ H' = H ]_vars

EraseEndThrowsWitness ==
  /\ op.name = "erase_range" /\ op.err = "logic_error"
  /\ op.first \in NodeIds /\ op.last = end(H, op.l)
  /\ size(H, op.l) >= 2

\* C10: erase(pos) on a list without elements throws std::out_of_range, for
\* every cursor of that list.
EraseEmptyThrows ==
  [][ (op'.name = "erase" /\ Nodes(H, op'.l) = <<>>) =>
        op'.err = "out_of_range" ]_vars


\* ------------------------------------------------------------ sort
\* C11: sort() returns with the list holding a permutation of the elements it
\* held before, in which no element is less than the one before it; a second
\* sort() right after the first leaves the sequence as the first left it.
SortSortsAndIsIdempotent ==
  [][op'.name = "sort" =>
       \A old \in {Elems(H, op'.l)}, now \in {Elems(H', op'.l)} :
         /\ Permutation(now, old)
         /\ Sorted(now)
         /\ size(H', op'.l) = size(H, op'.l)
         /\ live' = live
         /\ (op.name = "sort" /\ op.l = op'.l) => now = old]_vars

SortSortsAndIsIdempotentWitness ==
  /\ op.name = "sort"
  /\ Len(op.before) = MaxNodes
  /\ ~Sorted(op.before)
  /\ ~Sorted(Tail(op.before))
  /\ Sorted(Elems(H, op.l))

\* The elements of s whose key is k, in their order in s.
WithKey(s, k) == LET same(x) == x[1] = k IN SelectSeq(s, same)

\* C12: sort() is stable: the elements of every one key stand after it in the
\* order in which they stood before it, whatever their tags.
SortStable ==
  [][op'.name = "sort" =>
       \A old \in {Elems(H, op'.l)}, now \in {Elems(H', op'.l)} :
         \A k \in Keys : WithKey(now, k) = WithKey(old, k)]_vars

SortStableWitness ==
  /\ op.name = "sort"
  /\ ~Sorted(op.before)
  /\ \E i, j \in 1..Len(op.before) :
        /\ i < j
        /\ op.before[i][1] = op.before[j][1]
        /\ op.before[i][2] > op.before[j][2]


\* ------------------------------------------------------------ unique
\* The positions of s whose element differs from the one right before it.
FirstOfRun(s) == {i \in 1..Len(s) : i = 1 \/ s[i] # s[i - 1]}
\* The nodes of ns at the positions in I, in their order.
RECURSIVE At(_, _, _)
At(ns, I, i) ==
  IF i > Len(ns) THEN <<>>
  ELSE (IF i \in I THEN <<ns[i]>> ELSE <<>>) \o At(ns, I, i + 1)

\* C13: unique() removes exactly the elements equal to the element right
\* before them: the first node of every run of equal neighbours stays, with
\* its value, and nothing else does; equal elements that are not neighbours
\* both stay; size() drops by the number of nodes removed.
UniqueRemovesAdjacent ==
  [][op'.name = "unique" =>
       \A old \in {Nodes(H, op'.l)}, first \in {FirstOfRun(Elems(H, op'.l))} :
         \A kept \in {At(old, first, 1)} :
           /\ Nodes(H', op'.l) = kept
           /\ \A n \in Range(kept) : value'[n] = value[n]
           /\ size(H', op'.l) = size(H, op'.l) - (Len(old) - Len(kept))
           /\ live' = live \ (Range(old) \ Range(kept))]_vars

\* [x, x, y] became [x, y].
UniqueRemovesAdjacentWitness ==
  /\ op.name = "unique"
  /\ Len(op.before) = 3
  /\ op.before[1] = op.before[2]
  /\ op.before[2] # op.before[3]
  /\ Elems(H, op.l) = Tail(op.before)


\* ------------------------------------------------------------ reverse
\* C14: reverse() turns the sequence of a list of any length, none and one
\* included, into the same elements in the opposite order, in the same nodes
\* and with the same size(); a second reverse() right after it gives back the
\* sequence the first one found.
ReverseReverses ==
  [][op'.name = "reverse" =>
       \A old \in {Elems(H, op'.l)}, now \in {Elems(H', op'.l)} :
         /\ now = Reversed(old)
         /\ Nodes(H', op'.l) = Nodes(H, op'.l)
         /\ size(H', op'.l) = size(H, op'.l)
         /\ live' = live
         /\ (op.name = "reverse" /\ op.l = op'.l) => now = op.before]_vars

\* An odd number of elements, the outer two different, now in opposite order.
ReverseReversesWitness ==
  /\ op.name = "reverse"
  /\ Len(op.before) = 3
  /\ op.before[1] # op.before[3]
  /\ Elems(H, op.l) = Reversed(op.before)


\* ------------------------------------------------------------ swap
\* C15: a.swap(b) exchanges the two lists: walking a from begin() to end()
\* then visits the nodes b held, in b's order, and a.size() is b's former
\* size, and the same with a and b exchanged, whether the lists are empty or
\* not; no node is created, destroyed or given another value.
SwapExchanges ==
  [][op'.name = "swap" =>
       LET a == op'.l
           b == op'.o
       IN  /\ Nodes(H', a) = Nodes(H, b)
           /\ Nodes(H', b) = Nodes(H, a)
           /\ size(H', a) = size(H, b)
           /\ size(H', b) = size(H, a)
           /\ live' = live
           /\ value' = value]_vars


\* ------------------------------------------------------------ cursors
\* The nodes that a call recorded in r takes out of list r.l of heap h.
Removed(h, r) ==
  LET ns == Nodes(h, r.l)
  IN  IF ns = <<>> THEN {}
      ELSE IF r.name = "pop_back" THEN {ns[Len(ns)]}
      ELSE IF r.name = "pop_front" THEN {ns[1]}
      ELSE IF r.name = "erase" /\ r.err = "none" THEN {r.pos}
      ELSE {}

\* C16: a cursor to an element X stays good over every push, insert, pop and
\* erase that does not remove X: the node is still live, still in the same
\* list, at the same place among the nodes that were there, with the same
\* value.  An erase of X takes exactly the node of X out of the list.
CursorsStayValid ==
  [][op'.name \in {"push_back", "push_front", "insert", "pop_back", "pop_front", "erase"} =>
       \A old \in {Nodes(H, op'.l)}, now \in {Nodes(H', op'.l)}, gone \in {Removed(H, op')} :
         /\ \A X \in Range(old) \ gone :
              /\ X \in live'
              /\ X \in Range(now)
              /\ value'[X] = value[X]
         /\ Without(now, Range(now) \ Range(old)) = Without(old, gone)
         /\ Range(old) \ Range(now) = gone
         /\ (op'.name = "erase" /\ op'.pos \in NodeIds) =>
              gone = {op'.pos} /\ live' = live \ {op'.pos}]_vars

\* An erase took one node out of a list of three; the two others are there.
CursorsStayValidWitness ==
  /\ op.name = "erase"
  /\ op.err = "none"
  /\ op.pos \in NodeIds
  /\ Len(Nodes(H, op.l)) = 2
  /\ op.ret \in Range(Nodes(H, op.l))

\* C19: pop_back() and pop_front() of an empty list change nothing and raise
\* nothing: the sentinel stays linked to itself and size() stays 0.  Of a
\* list with elements they remove the last, respectively the first, node and
\* no other, and size() drops by one.
PopEmptyNoOp ==
  [][op'.name \in {"pop_back", "pop_front"} =>
       \A l \in {op'.l}, ns \in {Nodes(H, op'.l)}, now \in {Nodes(H', op'.l)} :
         IF ns = <<>>
         THEN /\ H' = H
              /\ next'[Base(l)] = Base(l)
              /\ prev'[Base(l)] = Base(l)
              /\ size(H', l) = 0
              /\ op'.err = "none"
         ELSE /\ now = IF op'.name = "pop_back"
                       THEN SubSeq(ns, 1, Len(ns) - 1) ELSE Tail(ns)
              /\ \A n \in Range(now) : value'[n] = value[n]
              /\ size(H', l) = size(H, l) - 1
              /\ live' = live \ Removed(H, op')
              /\ op'.err = "none"]_vars

\* A pop of the empty list has been made and the list is as constructed.
PopEmptyNoOpWitness ==
  /\ op.name \in {"pop_back", "pop_front"}
  /\ op.n = 0
  /\ H = EmptyHeap({op.l})


\* ------------------------------------------------------------ insert
\* C17: insert(pos, first, last) puts the elements of the range, in the
\* order of the range, right before pos: size() grows by the length of the
\* range, the nodes that were in the list stay in their order with their
\* values, and the iterator returned is at the first element inserted, or is
\* pos when the range is empty.  insert(pos, count, v) does the same with
\* count copies of v.
InsertRangeInOrder ==
  [][op'.name \in {"insert_range", "insert_n"} =>
       \A old \in {Nodes(H, op'.l)}, now \in {Nodes(H', op'.l)} :
         LET l     == op'.l
             range == op'.v
             i     == distance(H, begin(H, l), op'.pos) + 1
             k     == Len(range)
         IN  /\ Len(now) = Len(old) + k
             /\ size(H', l) = size(H, l) + k
             /\ \A j \in 1..k : now[i + j - 1] \notin Range(old)
             /\ \A j \in 1..k : value'[now[i + j - 1]] = range[j]
             /\ SubSeq(now, 1, i - 1) \o SubSeq(now, i + k, Len(now)) = old
             /\ \A n \in Range(old) : value'[n] = value[n]
             /\ op'.ret = IF k = 0 THEN op'.pos ELSE now[i]]_vars

\* Two different elements of a range went in before a node of the list.
InsertRangeInOrderWitness ==
  /\ op.name = "insert_range"
  /\ Len(op.v) = 2
  /\ op.v[1] # op.v[2]
  /\ op.pos \in NodeIds
  /\ Elems(H, op.l) = op.v \o op.before
  /\ op.ret = Nodes(H, op.l)[1]


\* ------------------------------------------------------------ erase range
\* C18: erase(first, last) with first and last both at elements and last
\* reachable from first: when first == last nothing changes and last is
\* returned; otherwise exactly the nodes from first up to, not including,
\* last leave the list and are deleted, the others keep their order and
\* values, size() drops by the number of nodes removed, and last is returned.
EraseRangeRemovesRange ==
  [][(op'.name = "erase_range" /\ op'.first \in NodeIds /\ op'.last \in NodeIds) =>
       \A old \in {Nodes(H, op'.l)}, now \in {Nodes(H', op'.l)} :
         \A gone \in {Chain(H, op'.first, op'.last, Fuel)} :
           /\ op'.err = "none"
           /\ op'.ret = op'.last
           /\ now = Without(old, Range(gone))
           /\ \A n \in Range(now) : value'[n] = value[n]
           /\ size(H', op'.l) = size(H, op'.l) - Len(gone)
           /\ live' = live \ Range(gone)
           /\ op'.first = op'.last => gone = <<>> /\ H' = H]_vars

\* Two nodes before the last one were erased from a list of three.
EraseRangeRemovesRangeWitness ==
  /\ op.name = "erase_range"
  /\ op.err = "none"
  /\ op.first \in NodeIds
  /\ op.n = 2
  /\ Nodes(H, op.l) = <<op.last>>
  /\ op.ret = op.last


\* ------------------------------------------------------------ merge ends
\* C20: a call self.merge(other) that has started returns, whatever the two
\* lists hold and also when other is self; when it has returned other is
\* empty and the two lists together hold as many elements as before.
MergeTerminates ==
  Running ~> /\ op.name = "merge"
             /\ op.err = "none"
             /\ Nodes(H, op.o) = <<>>
             /\ Cardinality(Range(Nodes(H, op.l)) \cup Range(Nodes(H, op.o))) = op.n

====
